---- MODULE Spec2Model ----
(***************************************************************************)
(* Model of the RFP Accelerator Agent orchestrator (rfp_agent/agent.py)    *)
(* and of its seven workflow steps (rfp_agent/workflow/step*.py).          *)
(*                                                                         *)
(* Strings that the code inspects character by character (names that are   *)
(* stripped, addresses that are matched against the e-mail pattern) are    *)
(* sequences of one-character strings.  An Optional[T] argument is the set *)
(* {} for None and {v} for the value v.  A context is a function from key  *)
(* names to values.  An exception is the record [exc, arg] of its class and *)
(* its argument; str(e) is the text str builds from the two.               *)
(***************************************************************************)
EXTENDS Integers, Sequences, FiniteSets, TLC

VARIABLES state, config, pc, call, remaining, context, invoked, seen,
          extCalls, saved, ncalls, direct, http

vars == <<state, config, pc, call, remaining, context, invoked, seen,
          extCalls, saved, ncalls, direct, http>>

(* ------------------------------ bounds --------------------------------- *)
MaxCalls == 2
MaxFiles == 1
MaxTeam == 2

(* ------------------------- values of the inputs ------------------------ *)
None == {}
Some(v) == {v}
ValueOf(opt) == CHOOSE v \in opt : TRUE

SeqsUpTo(S, n) == UNION {[1..k -> S] : k \in 0..n}

ExistingFiles == {"rfp.txt"}
FileNames == ExistingFiles \cup {"missing.txt"}
FileLists == SeqsUpTo(FileNames, MaxFiles)

GoodName == <<"A", "c">>
Names == {GoodName, <<>>, <<" ">>}

GoodEmail == <<"a", "@", "b", ".", "c", "o">>
ShortTld == <<"a", "@", "b", ".", "c">>
Emails == {GoodEmail, ShortTld}
TeamLists == SeqsUpTo(Emails, MaxTeam)
TeamArgs == {None} \cup {Some(t) : t \in TeamLists}

TotalSteps == 7
StepNumbers == 1..TotalSteps
Range(a, b) == [i \in 1..(IF b > a THEN b - a ELSE 0) |-> a + i - 1]
DefaultSteps == Range(1, 8)
Selections == {Range(1, k) : k \in 1..5}
                \cup {<<3, 1, 2>>, <<2, 1>>, <<1, 1>>, <<1, 3, 4>>,
                      <<1, 2, 3, 5, 6, 7>>, <<6, 7>>, <<0>>, <<8>>}
StepsArgs == {None} \cup {Some(s) : s \in Selections}
FromSteps == 0..8

(* ------------------------------ validators ----------------------------- *)
Whitespace == {" "}
Letters == {"a", "b", "c", "o", "A"}
Digits == {"1"}
LocalChars == Letters \cup Digits \cup {".", "_", "%", "+", "-"}
DomainChars == Letters \cup Digits \cup {".", "-"}

RECURSIVE LStrip(_)
LStrip(s) == IF s # <<>> /\ Head(s) \in Whitespace THEN LStrip(Tail(s)) ELSE s

RECURSIVE RStrip(_)
RStrip(s) ==
    IF s # <<>> /\ s[Len(s)] \in Whitespace
    THEN RStrip(SubSeq(s, 1, Len(s) - 1)) ELSE s

Strip(s) == RStrip(LStrip(s))

AllIn(s, a, b, chars) == \A i \in a..b : s[i] \in chars

\* ^[a-zA-Z0-9._%+-]+@[a-zA-Z0-9.-]+\.[a-zA-Z]{2,}$
MatchesEmailPattern(s) ==
    \E at \in 1..Len(s), dot \in 1..Len(s) :
        /\ s[at] = "@"
        /\ s[dot] = "."
        /\ at >= 2
        /\ AllIn(s, 1, at - 1, LocalChars)
        /\ dot >= at + 2
        /\ AllIn(s, at + 1, dot - 1, DomainChars)
        /\ Len(s) >= dot + 2
        /\ AllIn(s, dot + 1, Len(s), Letters)

validate_email(email) == email # <<>> /\ MatchesEmailPattern(Strip(email))

validate_file_path(file_path) == file_path \in ExistingFiles

(* ------------------------------ exceptions ----------------------------- *)
Exc(e, a) == [exc |-> e, arg |-> a]
NoError == Exc("", "")
KeyError(k) == Exc("KeyError", k)
ValueError(m) == Exc("ValueError", m)

\* the keys of self.steps are integers, those of a context are strings
IntKeys == {ToString(n) : n \in 0..9}

\* repr of a dictionary key: a string key is quoted, an integer key is not
Repr(k) == IF k \in IntKeys THEN k ELSE "'" \o k \o "'"

\* str(e) as it would be if it gave the class of the exception
str_Class(e) == e.exc

\* str(e): a KeyError shows the repr of the key, an AttributeError the
\* sentence object.__getattr__ builds, any other exception its message
str(e) ==
    CASE e.exc = "KeyError" -> Repr(e.arg)
      [] e.exc = "AttributeError" ->
            "'GeminiClient' object has no attribute '" \o e.arg \o "'"
      [] OTHER -> e.arg

\* _validate_inputs as it would be if the loop over team_members looked at
\* the first address only
_validate_inputs_First(rfp_files, client_name, rfp_title, team_members) ==
    IF rfp_files = <<>>
    THEN ValueError("At least one RFP file must be provided")
    ELSE IF \E i \in 1..Len(rfp_files) : ~validate_file_path(rfp_files[i])
    THEN ValueError("Invalid or non-existent file")
    ELSE IF client_name = <<>> \/ Strip(client_name) = <<>>
    THEN ValueError("Client name cannot be empty")
    ELSE IF rfp_title = <<>> \/ Strip(rfp_title) = <<>>
    THEN ValueError("RFP title cannot be empty")
    ELSE IF /\ team_members # None
            /\ ValueOf(team_members) # <<>>
            /\ ~validate_email(ValueOf(team_members)[1])
    THEN ValueError("Invalid email address")
    ELSE NoError

\* _validate_inputs: the exception it raises, or NoError when it passes
_validate_inputs(rfp_files, client_name, rfp_title, team_members) ==
    IF rfp_files = <<>>
    THEN ValueError("At least one RFP file must be provided")
    ELSE IF \E i \in 1..Len(rfp_files) : ~validate_file_path(rfp_files[i])
    THEN ValueError("Invalid or non-existent file")
    ELSE IF client_name = <<>> \/ Strip(client_name) = <<>>
    THEN ValueError("Client name cannot be empty")
    ELSE IF rfp_title = <<>> \/ Strip(rfp_title) = <<>>
    THEN ValueError("RFP title cannot be empty")
    ELSE IF /\ team_members # None
            /\ ValueOf(team_members) # <<>>
            /\ \E i \in 1..Len(ValueOf(team_members)) :
                   ~validate_email(ValueOf(team_members)[i])
    THEN ValueError("Invalid email address")
    ELSE NoError

(* -------------------------------- context ------------------------------ *)
EmptyMap == [k \in {} |-> ""]
Has(ctx, k) == k \in DOMAIN ctx

\* dict.update
Update(ctx, upd) ==
    [k \in DOMAIN ctx \cup DOMAIN upd |->
        IF k \in DOMAIN upd THEN upd[k] ELSE ctx[k]]

Today == "2026-11-01"
GcpProject == "gcp-sandpit-intelia"

\* the seed context as it would be if the collaborator list were left out
\* of it when the caller omits it
SeedContext_NoDefault(rfp_files, client_name, rfp_title, team_members) ==
    IF team_members = None
    THEN [rfp_files |-> rfp_files, client_name |-> client_name,
          rfp_title |-> rfp_title, date |-> Today,
          gcp_project |-> GcpProject]
    ELSE [rfp_files |-> rfp_files, client_name |-> client_name,
          rfp_title |-> rfp_title, date |-> Today,
          team_members |-> ValueOf(team_members),
          gcp_project |-> GcpProject]

SeedContext(rfp_files, client_name, rfp_title, team_members) ==
    [rfp_files |-> rfp_files,
     client_name |-> client_name,
     rfp_title |-> rfp_title,
     date |-> Today,
     team_members |-> IF team_members = None \/ ValueOf(team_members) = <<>>
                      THEN <<>> ELSE ValueOf(team_members),
     gcp_project |-> GcpProject]

SeedKeys == {"rfp_files", "client_name", "rfp_title", "date", "team_members",
             "gcp_project"}

(* ------------------------- the body of a step -------------------------- *)
(* A step's execute() is a straight line of operations.  "key" reads       *)
(* context[a] and raises KeyError when a is absent; "ext" is a call to an  *)
(* external client that may raise; "loc" is a local call that may raise    *)
(* (DocumentParser.parse_document); "try" is an external call whose        *)
(* HttpError the client catches and reports per address; "attr" is a call  *)
(* of a method the object does not have (AttributeError).                  *)
Op(t, a, to) == [t |-> t, a |-> a, to |-> to]
Key(k) == Op("key", k, <<>>)
Ext(name) == Op("ext", name, <<>>)
Loc(name) == Op("loc", name, <<>>)
Attr(name) == Op("attr", name, <<>>)
Try(name, to) == Op("try", name, to)

RECURSIVE Repeat(_, _)
Repeat(ops, n) == IF n = 0 THEN <<>> ELSE ops \o Repeat(ops, n - 1)

ForEach(name, addrs) == [i \in 1..Len(addrs) |-> Try(name, addrs[i])]

Fallible(op) == op.t \in {"ext", "loc"}
Logged(op) == op.t \in {"ext", "try"}
FallibleCount(ops, i) == Cardinality({j \in 1..i : Fallible(ops[j])})

OpRaises(ops, ctx, f, i) ==
    \/ ops[i].t = "key" /\ ~Has(ctx, ops[i].a)
    \/ ops[i].t = "attr"
    \/ Fallible(ops[i]) /\ FallibleCount(ops, i) = f

\* index of the first operation that raises, 0 when none does
StopAt(ops, ctx, f) ==
    IF \E i \in 1..Len(ops) : OpRaises(ops, ctx, f, i)
    THEN CHOOSE i \in 1..Len(ops) :
            /\ OpRaises(ops, ctx, f, i)
            /\ \A j \in 1..(i - 1) : ~OpRaises(ops, ctx, f, j)
    ELSE 0

\* the text of an exception a client or the parser raises is arbitrary; one
\* token stands for it
OpError(op) ==
    CASE op.t = "key" -> KeyError(op.a)
      [] op.t = "attr" -> Exc("AttributeError", op.a)
      [] OTHER -> Exc("Exception", "call failed")

RunOps(ops, ctx, f) ==
    LET s == StopAt(ops, ctx, f) IN
    [raised |-> s # 0,
     error |-> IF s # 0 THEN OpError(ops[s]) ELSE NoError,
     calls |-> SelectSeq(SubSeq(ops, 1, IF s = 0 THEN Len(ops) ELSE s), Logged)]

\* a raise as it would be if the step had already written to the context
Raised_Partial(run, ctx) ==
    [raised |-> TRUE, error |-> run.error, status |-> "", updates |-> EmptyMap,
     ctx |-> Update(ctx, [partial |-> TRUE]), calls |-> run.calls]

\* execute() left by an exception: no result, the context as it was given
Raised(run, ctx) ==
    [raised |-> TRUE, error |-> run.error, status |-> "", updates |-> EmptyMap,
     ctx |-> ctx, calls |-> run.calls]

Returned(status, updates, ctx, calls) ==
    [raised |-> FALSE, error |-> NoError, status |-> status,
     updates |-> updates, ctx |-> ctx, calls |-> calls]

NumFiles(ctx) == IF Has(ctx, "rfp_files") THEN Len(ctx["rfp_files"]) ELSE 0
ParseAll(ctx) == Repeat(<<Loc("DocumentParser.parse_document")>>, NumFiles(ctx))

(* ------------------------------- step 1 -------------------------------- *)
\* DocumentParser.extract_client_info: client_name is always None; rfp_title
\* is a line of the document's head that is upper or title case, if any
extract_client_info(titleFound) ==
    [client_name |-> FALSE, rfp_title |-> titleFound]

IngestionOps(ctx) ==
    <<Ext("GoogleDriveClient"), Key("client_name"), Key("rfp_title"),
      Key("date"), Ext("drive.create_project_folder"), Key("rfp_files")>>
    \o Repeat(<<Loc("DocumentParser.parse_document"), Ext("drive.upload_file")>>,
              NumFiles(ctx))
    \o (IF NumFiles(ctx) > 0
        THEN <<Loc("DocumentParser.parse_document")>> ELSE <<>>)

\* x: whether the first document has a line extract_client_info takes for
\* the title
IngestionStep(ctx, f, x) ==
    LET run == RunOps(IngestionOps(ctx), ctx, f)
        extracted_info == extract_client_info(x)
        found == IF NumFiles(ctx) = 0 THEN {}
                 ELSE (IF extracted_info.client_name
                          /\ ~Has(ctx, "client_name_confirmed")
                       THEN {"extracted_client_name"} ELSE {})
                      \cup (IF extracted_info.rfp_title
                               /\ ~Has(ctx, "rfp_title_confirmed")
                            THEN {"extracted_rfp_title"} ELSE {})
        mutated == Update(ctx, [k \in found |-> "extracted"])
    IN IF run.raised THEN Raised(run, ctx)
       ELSE Returned("success",
                     [folder_id |-> "folder-id",
                      folder_url |-> "folder-url",
                      folder_name |-> "folder-name",
                      subfolders |-> "subfolders",
                      uploaded_files |-> ctx["rfp_files"]],
                     mutated, run.calls)

(* ------------------------------- step 2 -------------------------------- *)
KnowledgeBaseOps(ctx) ==
    <<Key("gcp_project"), Ext("VertexSearchClient"), Key("client_name"),
      Key("rfp_title")>>

KnowledgeBaseStep(ctx, f) ==
    LET run == RunOps(KnowledgeBaseOps(ctx), ctx, f) IN
    IF run.raised THEN Raised(run, ctx)
    ELSE Returned("success",
                  [knowledge_base_id |-> "test-data-store-id",
                   grounding_source |-> "None"],
                  ctx, run.calls)

(* ------------------------------- step 3 -------------------------------- *)
QuestionGenerationOps(ctx) ==
    <<Key("gcp_project"), Ext("GeminiClient"), Ext("GoogleDocsClient"),
      Key("rfp_files")>>
    \o ParseAll(ctx)
    \o <<Ext("gemini.generate_follow_up_questions"), Key("subfolders"),
         Ext("docs.create_document"), Key("client_name"), Key("rfp_title"),
         Ext("docs.create_questions_document")>>

\* the step as it would be if it returned the questions without the document
QuestionGenerationStep_NoDoc(ctx, f) ==
    LET run == RunOps(QuestionGenerationOps(ctx), ctx, f) IN
    IF run.raised THEN Raised(run, ctx)
    ELSE Returned("success", [questions |-> "questions"], ctx, run.calls)

QuestionGenerationStep(ctx, f) ==
    LET run == RunOps(QuestionGenerationOps(ctx), ctx, f) IN
    IF run.raised THEN Raised(run, ctx)
    ELSE Returned("success",
                  [questions |-> "questions",
                   questions_doc_id |-> "questions-doc-id",
                   questions_doc_url |-> "questions-doc-url"],
                  ctx, run.calls)

(* ------------------------------- step 4 -------------------------------- *)
\* GeminiClient defines generate_draft_answers; the step calls
\* draft_rfp_answers, which GeminiClient does not have
AnswerGenerationOps(ctx) ==
    <<Key("gcp_project"), Ext("GeminiClient"), Ext("GoogleDocsClient"),
      Key("rfp_files")>>
    \o ParseAll(ctx)
    \o <<Attr("draft_rfp_answers"), Key("subfolders"),
         Ext("docs.create_document"), Key("client_name"), Key("rfp_title"),
         Ext("docs.create_answers_document")>>

AnswerGenerationStep(ctx, f) ==
    LET run == RunOps(AnswerGenerationOps(ctx), ctx, f) IN
    IF run.raised THEN Raised(run, ctx)
    ELSE Returned("success",
                  [draft_answers |-> "draft-answers",
                   answers_doc_id |-> "answers-doc-id",
                   answers_doc_url |-> "answers-doc-url"],
                  ctx, run.calls)

(* ------------------------------- step 5 -------------------------------- *)
ProjectPlanOps(ctx) ==
    <<Key("gcp_project"), Ext("GeminiClient"), Ext("GoogleDocsClient"),
      Key("rfp_files")>>
    \o ParseAll(ctx)
    \o <<Ext("gemini.extract_project_timeline"),
         Ext("gemini.create_project_plan"), Key("subfolders"),
         Ext("docs.create_document"), Key("client_name"), Key("rfp_title"),
         Ext("docs.create_project_plan_document")>>

ProjectPlanStep(ctx, f) ==
    LET run == RunOps(ProjectPlanOps(ctx), ctx, f) IN
    IF run.raised THEN Raised(run, ctx)
    ELSE Returned("success",
                  [timeline_data |-> "timeline-data",
                   project_plan |-> "project-plan",
                   plan_doc_id |-> "plan-doc-id",
                   plan_doc_url |-> "plan-doc-url"],
                  ctx, run.calls)

(* ------------------------------- step 6 -------------------------------- *)
\* context.get(key, [])
GetList(ctx, k) == IF Has(ctx, k) THEN ctx[k] ELSE <<>>

\* the test of the loop as it would be if every address passed
IsValidEmail_Any(e) == TRUE

IsValidEmail(e) == validate_email(e)
\* the else branch as it would be if step 6 asked for a longer address than
\* the up-front validation does
IsInvalidEmail_Longer(e) == ~validate_email(e) \/ Len(e) < 7

IsInvalidEmail(e) == ~validate_email(e)

\* the step as it would be if it raised when there is no collaborator
CollaborationStep_Raising(ctx) ==
    LET team_members == GetList(ctx, "team_members")
        validated_members == SelectSeq(team_members, IsValidEmail)
        invalid_emails == SelectSeq(team_members, IsInvalidEmail)
    IN IF team_members = <<>>
       THEN Raised([error |-> ValueError("No team members provided"),
                    calls |-> <<>>], ctx)
       ELSE IF invalid_emails # <<>>
       THEN Returned("validation_failed",
                     [validated_team_members |-> validated_members,
                      invalid_team_members |-> invalid_emails], ctx, <<>>)
       ELSE Returned("success",
                     [validated_team_members |-> validated_members,
                      awaiting_team_members |-> FALSE], ctx, <<>>)

CollaborationStep(ctx) ==
    LET team_members == GetList(ctx, "team_members")
        validated_members == SelectSeq(team_members, IsValidEmail)
        invalid_emails == SelectSeq(team_members, IsInvalidEmail)
    IN IF team_members = <<>>
       THEN Returned("pending_input",
                     [awaiting_team_members |-> TRUE], ctx, <<>>)
       ELSE IF invalid_emails # <<>>
       THEN Returned("validation_failed",
                     [validated_team_members |-> validated_members,
                      invalid_team_members |-> invalid_emails], ctx, <<>>)
       ELSE Returned("success",
                     [validated_team_members |-> validated_members,
                      awaiting_team_members |-> FALSE], ctx, <<>>)

(* ------------------------------- step 7 -------------------------------- *)
\* the calls of step 7 as they would be if it served the supplied list
\* team_members instead of the validated one
DistributionOps_AllTeam(ctx, cfg) ==
    LET team_members == GetList(ctx, "team_members") IN
    <<Ext("GoogleDriveClient"), Key("gcp_project"),
      Ext("GoogleWorkspaceClient"), Key("folder_id")>>
    \o ForEach("drive.permissions.create", team_members)
    \o <<Key("notebook_id")>>
    \o (IF cfg.email_enabled
        THEN <<Key("client_name"), Key("rfp_title")>>
             \o ForEach("gmail.messages.send", team_members)
        ELSE <<>>)

DistributionOps(ctx, cfg) ==
    LET team_members == GetList(ctx, "validated_team_members") IN
    <<Ext("GoogleDriveClient"), Key("gcp_project"),
      Ext("GoogleWorkspaceClient"), Key("folder_id")>>
    \o ForEach("drive.permissions.create", team_members)
    \o <<Key("notebook_id")>>
    \o (IF cfg.email_enabled
        THEN <<Key("client_name"), Key("rfp_title")>>
             \o ForEach("gmail.messages.send", team_members)
        ELSE <<>>)

DistributionStep(ctx, cfg, f) ==
    LET team_members == GetList(ctx, "validated_team_members")
        run == RunOps(DistributionOps(ctx, cfg), ctx, f)
    IN IF team_members = <<>>
       THEN Returned("skipped", EmptyMap, ctx, <<>>)
       ELSE IF run.raised THEN Raised(run, ctx)
       ELSE Returned("success",
                     [distribution_complete |-> TRUE,
                      folder_share_results |-> team_members,
                      email_results |-> IF cfg.email_enabled
                                        THEN team_members ELSE <<>>],
                     ctx, run.calls)

(* ---------------------------- step registry ---------------------------- *)
StepOps(n, ctx, cfg) ==
    CASE n = 1 -> IngestionOps(ctx)
      [] n = 2 -> KnowledgeBaseOps(ctx)
      [] n = 3 -> QuestionGenerationOps(ctx)
      [] n = 4 -> AnswerGenerationOps(ctx)
      [] n = 5 -> ProjectPlanOps(ctx)
      [] n = 6 -> <<>>
      [] n = 7 -> IF GetList(ctx, "validated_team_members") = <<>>
                  THEN <<>> ELSE DistributionOps(ctx, cfg)

NumFallible(n, ctx, cfg) ==
    FallibleCount(StepOps(n, ctx, cfg), Len(StepOps(n, ctx, cfg)))

\* self.steps[n].execute(context)
StepExecute(n, ctx, cfg, f, x) ==
    CASE n = 1 -> IngestionStep(ctx, f, x)
      [] n = 2 -> KnowledgeBaseStep(ctx, f)
      [] n = 3 -> QuestionGenerationStep(ctx, f)
      [] n = 4 -> AnswerGenerationStep(ctx, f)
      [] n = 5 -> ProjectPlanStep(ctx, f)
      [] n = 6 -> CollaborationStep(ctx)
      [] n = 7 -> DistributionStep(ctx, cfg, f)

(* ----------------------------- orchestrator ---------------------------- *)
NoCall ==
    [op |-> "none", rfp_files |-> <<>>, client_name |-> <<>>,
     rfp_title |-> <<>>, team_members |-> None, steps_to_run |-> None,
     from_step |-> 0, given |-> None, outcome |-> "none", error |-> NoError]

\* RFPAcceleratorAgent.__init__ with the default configuration
Init ==
    /\ state = [status |-> "initialized", current_step |-> 0,
                results |-> EmptyMap, errors |-> <<>>]
    /\ config = [email_enabled |-> TRUE]
    /\ pc = "idle"
    /\ call = NoCall
    /\ remaining = <<>>
    /\ context = EmptyMap
    /\ invoked = <<>>
    /\ seen = <<>>
    /\ extCalls = <<>>
    /\ saved = None
    /\ ncalls = 0
    /\ direct = None
    /\ http = None

\* steps_to_run as it would be if execute_workflow sorted the selection
StepsToRun_Sorted(c) ==
    IF c.steps_to_run = None THEN DefaultSteps
    ELSE SortSeq(ValueOf(c.steps_to_run), LAMBDA a, b : a < b)

\* steps_to_run, or the default when it is omitted
StepsToRun(c) ==
    IF c.steps_to_run = None THEN DefaultSteps ELSE ValueOf(c.steps_to_run)

\* the entry of a call as it would be if it started from a fresh Run State
NewCall_Reset ==
    /\ ncalls' = ncalls + 1
    /\ invoked' = <<>>
    /\ seen' = <<>>
    /\ extCalls' = <<>>
    /\ state' = [status |-> "initialized", current_step |-> 0,
                 results |-> EmptyMap, errors |-> <<>>]
    /\ UNCHANGED <<config, saved>>

\* a call begins: Run State is the instance's and is not touched
NewCall ==
    /\ ncalls' = ncalls + 1
    /\ invoked' = <<>>
    /\ seen' = <<>>
    /\ extCalls' = <<>>
    /\ UNCHANGED <<state, config, saved>>

\* the exit of a rejected call as it would be if the rejection were recorded
\* in Run State like a failure of a step
Leave_Recorded(c, outcome, err) ==
    /\ ncalls' = ncalls + 1
    /\ invoked' = <<>>
    /\ seen' = <<>>
    /\ extCalls' = <<>>
    /\ state' = [state EXCEPT !.status = "failed",
                              !.errors = Append(@, str(err))]
    /\ UNCHANGED <<config, saved>>
    /\ pc' = "done"
    /\ call' = [c EXCEPT !.outcome = outcome, !.error = err,
                         !.steps_to_run = None]
    /\ remaining' = <<>>
    /\ context' = EmptyMap

\* an exception leaves the call before the try block is entered; a call
\* rejected by validation never reads steps_to_run, and its record does not
\* keep it
Leave(c, outcome, err) ==
    /\ NewCall
    /\ pc' = "done"
    /\ call' = [c EXCEPT !.outcome = outcome, !.error = err,
                         !.steps_to_run = None]
    /\ remaining' = <<>>
    /\ context' = EmptyMap

\* the entry of the loop as it would be if errors were kept per call
Enter_Fresh(c) ==
    /\ ncalls' = ncalls + 1
    /\ invoked' = <<>>
    /\ seen' = <<>>
    /\ extCalls' = <<>>
    /\ state' = [state EXCEPT !.errors = <<>>]
    /\ UNCHANGED <<config, saved>>
    /\ pc' = "loop"
    /\ call' = c
    /\ remaining' = StepsToRun(c)
    /\ context' = SeedContext(c.rfp_files, c.client_name, c.rfp_title,
                              c.team_members)

\* the seed context is built and the step loop is entered
Enter(c) ==
    /\ NewCall
    /\ pc' = "loop"
    /\ call' = c
    /\ remaining' = StepsToRun(c)
    /\ context' = SeedContext(c.rfp_files, c.client_name, c.rfp_title,
                              c.team_members)

\* execute_workflow as it would be if it refused an empty selection of steps
Start_NonEmpty(c) ==
    LET err == _validate_inputs(c.rfp_files, c.client_name, c.rfp_title,
                                c.team_members)
    IN IF err # NoError THEN Leave(c, "rejected", err)
       ELSE IF StepsToRun(c) = <<>>
       THEN Leave(c, "rejected", ValueError("No steps to run"))
       ELSE Enter(c)

\* execute_workflow up to the start of the step loop
Start(c) ==
    LET err == _validate_inputs(c.rfp_files, c.client_name, c.rfp_title,
                                c.team_members)
    IN IF err # NoError THEN Leave(c, "rejected", err) ELSE Enter(c)

ExecuteWorkflow ==
    /\ pc = "idle"
    /\ ncalls < MaxCalls
    /\ UNCHANGED <<direct, http>>
    /\ \E rfp_files \in FileLists, client_name \in Names, rfp_title \in Names,
          team_members \in TeamArgs :
          LET c == [NoCall EXCEPT !.op = "execute",
                                  !.rfp_files = rfp_files,
                                  !.client_name = client_name,
                                  !.rfp_title = rfp_title,
                                  !.team_members = team_members]
          IN \* steps_to_run is not read before validation has passed
             IF _validate_inputs(rfp_files, client_name, rfp_title,
                                 team_members) # NoError
             THEN Start(c)
             ELSE \E steps_to_run \in StepsArgs :
                     Start([c EXCEPT !.steps_to_run = steps_to_run])

(* contexts a caller hands to resume_workflow: the one the last successful *)
(* call returned, the one of example_usage.py, and hand-edited ones        *)
Without(ctx, k) == [j \in DOMAIN ctx \ {k} |-> ctx[j]]

UpstreamOutputs ==
    [folder_id |-> "folder-id", folder_url |-> "folder-url",
     subfolders |-> "subfolders", questions |-> "questions",
     notebook_id |-> "notebook-id",
     validated_team_members |-> <<GoodEmail>>]

ExampleContext ==
    [rfp_files |-> <<"rfp.txt">>, client_name |-> GoodName,
     rfp_title |-> GoodName, folder_id |-> "folder-id",
     notebook_id |-> "notebook-id"]

BaseContext ==
    Update(SeedContext(<<"rfp.txt">>, GoodName, GoodName, Some(<<GoodEmail>>)),
           UpstreamOutputs)

HandContexts ==
    {BaseContext, ExampleContext,
     [BaseContext EXCEPT !["rfp_files"] = <<"missing.txt">>],
     [BaseContext EXCEPT !["client_name"] = <<" ">>],
     [BaseContext EXCEPT !["rfp_title"] = <<>>],
     [BaseContext EXCEPT !["team_members"] = <<ShortTld>>],
     Without(BaseContext, "rfp_title")}

ResumeContexts == HandContexts \cup {s.context : s \in saved}

FirstMissing(ctx) ==
    IF ~Has(ctx, "rfp_files") THEN "rfp_files"
    ELSE IF ~Has(ctx, "client_name") THEN "client_name"
    ELSE IF ~Has(ctx, "rfp_title") THEN "rfp_title"
    ELSE ""

\* resume_workflow as it would be if it entered the step loop directly
ResumeWorkflow_Trusting ==
    /\ pc = "idle"
    /\ ncalls < MaxCalls
    /\ UNCHANGED <<direct, http>>
    /\ \E ctx \in ResumeContexts, from_step \in FromSteps :
          LET c == [NoCall EXCEPT !.op = "resume",
                                  !.from_step = from_step,
                                  !.given = Some(ctx),
                                  !.steps_to_run = Some(Range(from_step, 8))]
          IN IF FirstMissing(ctx) # ""
             THEN Leave(c, "key_error", KeyError(FirstMissing(ctx)))
             ELSE Enter([c EXCEPT
                     !.rfp_files = ctx["rfp_files"],
                     !.client_name = ctx["client_name"],
                     !.rfp_title = ctx["rfp_title"],
                     !.team_members = IF Has(ctx, "team_members")
                                      THEN Some(ctx["team_members"])
                                      ELSE None])

ResumeWorkflow ==
    /\ pc = "idle"
    /\ ncalls < MaxCalls
    /\ UNCHANGED <<direct, http>>
    /\ \E ctx \in ResumeContexts, from_step \in FromSteps :
          LET c == [NoCall EXCEPT !.op = "resume",
                                  !.from_step = from_step,
                                  !.given = Some(ctx),
                                  !.steps_to_run = Some(Range(from_step, 8))]
          IN IF FirstMissing(ctx) # ""
             THEN Leave(c, "key_error", KeyError(FirstMissing(ctx)))
             ELSE Start([c EXCEPT
                     !.rfp_files = ctx["rfp_files"],
                     !.client_name = ctx["client_name"],
                     !.rfp_title = ctx["rfp_title"],
                     !.team_members = IF Has(ctx, "team_members")
                                      THEN Some(ctx["team_members"])
                                      ELSE None])

\* the raise as it would be if the loop went on to the next step instead
Reraise_Swallow ==
    /\ pc' = "loop"
    /\ remaining' = Tail(remaining)

\* raise: the exception leaves the loop and the call; the rest of
\* steps_to_run is not iterated
Reraise ==
    /\ pc' = "done"
    /\ remaining' = Tail(remaining)

\* the external calls of the except clauses as they would be if the
\* orchestrator removed the workspace folder on failure
ExceptCalls_Delete == <<Op("ext", "drive.files.delete", <<>>)>>

\* the external calls the except clauses of _execute_step and of
\* execute_workflow make: they log, record and re-raise, nothing else
ExceptCalls == <<>>

\* the except clause as it would be without errors.append
Fail_NoAppend(e) ==
    /\ state' = [state EXCEPT !.current_step = Head(remaining),
                              !.status = "failed"]
    /\ call' = [call EXCEPT !.outcome = "failed", !.error = e]
    /\ Reraise

\* the except clause of execute_workflow
Fail(e) ==
    /\ state' = [state EXCEPT !.current_step = Head(remaining),
                              !.status = "failed",
                              !.errors = Append(@, str(e))]
    /\ call' = [call EXCEPT !.outcome = "failed", !.error = e]
    /\ Reraise

\* the merge as it would be if the context were replaced by the updates
Merge_Replace(ctx, updates) == updates

\* context.update(result.get("context_updates", {}))
Merge(ctx, updates) == Update(ctx, updates)

\* one iteration of the step loop: current_step, then _execute_step
ExecuteStep ==
    /\ pc = "loop"
    /\ remaining # <<>>
    /\ LET step_num == Head(remaining) IN
       IF step_num \notin StepNumbers
       THEN /\ Fail(KeyError(ToString(step_num)))
            /\ UNCHANGED <<context, invoked, seen, extCalls>>
       ELSE \E f \in 0..NumFallible(step_num, context, config),
               x \in (IF step_num = 1 THEN BOOLEAN ELSE {FALSE}) :
            LET result == StepExecute(step_num, context, config, f, x) IN
            /\ invoked' = Append(invoked, step_num)
            /\ seen' = Append(seen, context)
            /\ extCalls' = extCalls \o result.calls
                              \o (IF result.raised THEN ExceptCalls ELSE <<>>)
            /\ IF result.raised
               THEN /\ Fail(result.error)
                    /\ context' = result.ctx
               ELSE /\ context' = Merge(result.ctx, result.updates)
                    /\ state' = [state EXCEPT
                          !.current_step = step_num,
                          !.results = Update(@, step_num :> result.status)]
                    /\ remaining' = Tail(remaining)
                    /\ UNCHANGED <<pc, call>>
    /\ UNCHANGED <<config, saved, ncalls, direct, http>>

\* the end of the loop as it would be if it returned without marking the run
Complete_NoStatus ==
    /\ pc = "loop"
    /\ remaining = <<>>
    /\ state' = state
    /\ call' = [call EXCEPT !.outcome = "success"]
    /\ pc' = "done"
    /\ UNCHANGED <<config, remaining, context, invoked, seen, extCalls,
                   saved, ncalls, direct, http>>

\* the loop is exhausted: status "completed" and the return value
Complete ==
    /\ pc = "loop"
    /\ remaining = <<>>
    /\ state' = [state EXCEPT !.status = "completed"]
    /\ call' = [call EXCEPT !.outcome = "success"]
    /\ pc' = "done"
    /\ UNCHANGED <<config, remaining, context, invoked, seen, extCalls,
                   saved, ncalls, direct, http>>

\* the caller receives the result (or the exception); it keeps the context
\* that a partial run execute_workflow(steps_to_run=[1..k]) returned, to
\* resume from it
Return ==
    /\ pc = "done"
    /\ pc' = "idle"
    /\ saved' = IF /\ call.outcome = "success"
                   /\ call.op = "execute"
                   /\ call.steps_to_run # None
                   /\ StepsToRun(call) = Range(1, Len(StepsToRun(call)) + 1)
                THEN Some([context |-> context, steps |-> StepsToRun(call)])
                ELSE saved
    /\ call' = NoCall
    /\ remaining' = <<>>
    /\ context' = EmptyMap
    /\ invoked' = <<>>
    /\ seen' = <<>>
    /\ extCalls' = <<>>
    /\ UNCHANGED <<state, config, ncalls, direct, http>>

(* ------------------------------ get_status ----------------------------- *)
(* The quotient current_step / 7 is a float; it is kept here as the       *)
(* fraction in lowest terms [num, den], which is exact where the float is  *)
(* (0/7 and 7/7) and stands for the rounded float elsewhere.               *)
RECURSIVE Gcd(_, _)
Gcd(a, b) == IF b = 0 THEN a ELSE Gcd(b, a % b)

\* a / b
TrueDiv(a, b) == [num |-> a \div Gcd(a, b), den |-> b \div Gcd(a, b)]

\* q * n
Times(q, n) == TrueDiv(q.num * n, q.den)

\* get_status as it would be with floor division, current_step // 7
get_status_FloorDiv ==
    [status |-> state.status,
     current_step |-> state.current_step,
     total_steps |-> 7,
     progress_percent |-> Times(TrueDiv(state.current_step \div 7, 1), 100),
     errors |-> state.errors]

\* get_status: a read of Run State, callable between and during calls
get_status ==
    [status |-> state.status,
     current_step |-> state.current_step,
     total_steps |-> 7,
     progress_percent |-> Times(TrueDiv(state.current_step, 7), 100),
     errors |-> state.errors]

Next == ExecuteWorkflow \/ ResumeWorkflow \/ ExecuteStep \/ Complete \/ Return

\* one orchestrator instance, up to MaxCalls calls one after another
Spec == Init /\ [][Next]_vars

\* one orchestrator instance and a single call
FirstExecuteWorkflow == ncalls = 0 /\ ExecuteWorkflow
FirstResumeWorkflow == ncalls = 0 /\ ResumeWorkflow
NextCall ==
    FirstExecuteWorkflow \/ FirstResumeWorkflow \/ ExecuteStep \/ Complete
      \/ Return

SpecCall == Init /\ [][NextCall]_vars

(* One orchestrator instance serving one RFP: up to MaxCalls calls one after *)
(* another, each with the RFP's file, client and title or with one of the   *)
(* ways of getting an argument wrong, and with any selection of steps.      *)
RunFileLists == {<<>>, <<"missing.txt">>, <<"rfp.txt">>}
RunNames == {GoodName, <<" ">>}
RunTeamArgs == {None, Some(<<GoodEmail>>), Some(<<ShortTld>>)}
RunContexts ==
    {BaseContext, ExampleContext,
     [BaseContext EXCEPT !["rfp_files"] = <<"missing.txt">>],
     Without(BaseContext, "rfp_title")}

RunExecuteWorkflow ==
    /\ ExecuteWorkflow
    /\ call'.rfp_files \in RunFileLists
    /\ call'.client_name \in RunNames
    /\ call'.rfp_title \in RunNames
    /\ call'.team_members \in RunTeamArgs

RunResumeWorkflow ==
    /\ ResumeWorkflow
    /\ call'.given \subseteq RunContexts \cup {s.context : s \in saved}

NextRun ==
    RunExecuteWorkflow \/ RunResumeWorkflow \/ ExecuteStep \/ Complete
      \/ Return

SpecRuns == Init /\ [][NextRun]_vars

(* ----------------------- a step executed on its own --------------------- *)
(* WorkflowStep.execute(context) called on a step object outside the       *)
(* orchestrator, with a context the caller built: any collaborator list,   *)
(* validated or not, with or without the keys of earlier steps.            *)
OptionalLists == {None} \cup {Some(t) : t \in TeamLists}

WithList(ctx, k, opt) ==
    IF opt = None THEN Without(ctx, k) ELSE Update(ctx, [j \in {k} |-> ValueOf(opt)])

WithKeys(ctx, ks) == Update(ctx, [k \in ks |-> k])

StepContexts(n) ==
    CASE n = 6 ->
           {WithList(BaseContext, "team_members", t) : t \in OptionalLists}
      [] n = 7 ->
           {WithKeys(WithList(Without(Without(
                        [BaseContext EXCEPT
                           !["team_members"] = <<GoodEmail, ShortTld>>],
                        "folder_id"), "notebook_id"),
                     "validated_team_members", t), ks) :
              t \in OptionalLists, ks \in SUBSET {"folder_id", "notebook_id"}}
      [] OTHER -> {BaseContext, Without(BaseContext, "subfolders"),
                   Without(BaseContext, "grounding_source")}

DirectStep ==
    /\ pc = "idle"
    /\ ncalls = 0
    /\ direct = None
    /\ http = None
    /\ \E n \in StepNumbers :
       \E ctx \in StepContexts(n),
          enabled \in (IF n = 7 THEN BOOLEAN ELSE {TRUE}) :
          LET cfg == [email_enabled |-> enabled] IN
          \E f \in 0..NumFallible(n, ctx, cfg),
             x \in (IF n = 1 THEN BOOLEAN ELSE {FALSE}) :
             direct' = Some([step |-> n, given |-> ctx, config |-> cfg,
                             result |-> StepExecute(n, ctx, cfg, f, x)])
    /\ UNCHANGED <<state, config, pc, call, remaining, context, invoked, seen,
                   extCalls, saved, ncalls, http>>

\* the caller drops the result
DirectDone ==
    /\ direct # None
    /\ direct' = None
    /\ UNCHANGED <<state, config, pc, call, remaining, context, invoked, seen,
                   extCalls, saved, ncalls, http>>

NextStep == DirectStep \/ DirectDone

SpecStep == Init /\ [][NextStep]_vars

(* ------------------------ the step loop as a function ------------------- *)
\* the step loop run to its end from a context, every external call
\* succeeding: the steps invoked, the outcome and the error
RECURSIVE ContinueLoop(_, _, _)
ContinueLoop(ctx, steps, cfg) ==
    IF steps = <<>>
    THEN [invoked |-> <<>>, outcome |-> "success", error |-> NoError]
    ELSE IF Head(steps) \notin StepNumbers
    THEN [invoked |-> <<>>, outcome |-> "failed",
          error |-> KeyError(ToString(Head(steps)))]
    ELSE LET result == StepExecute(Head(steps), ctx, cfg, 0, FALSE) IN
         IF result.raised
         THEN [invoked |-> <<Head(steps)>>, outcome |-> "failed",
               error |-> result.error]
         ELSE LET rest == ContinueLoop(Merge(result.ctx, result.updates),
                                       Tail(steps), cfg)
              IN [rest EXCEPT !.invoked = <<Head(steps)>> \o @]

(* ------------------------------ server.py ------------------------------ *)
(* POST /run-workflow.  The handler builds a new orchestrator for every     *)
(* request and runs the default steps on it; http holds the request and     *)
(* the response the client receives.  Optional[str] fields are None or a    *)
(* string, and the handler tests them for truth: None and "" are false.     *)
Truthy(opt) == opt # None /\ ValueOf(opt) # ""
Contents == {None, Some(""), Some("rfp text")}
Filenames == {None, Some("rfp.txt")}
DriveFileIds == {None, Some(""), Some("drive-file-id")}

\* class RFPRequest: a body without client_name, rfp_title or team_members
\* does not reach the handler
RFPRequest ==
    [client_name : Names, rfp_title : Names, rfp_content : Contents,
     rfp_filename : Filenames, rfp_drive_file_id : DriveFileIds,
     team_members : TeamLists]

\* the statements of the try block before _execute_workflow is called, and
\* the construction of the orchestrator _execute_workflow starts with;
\* GoogleDriveClient has no method download_file
SourceOps(request) ==
    IF Truthy(request.rfp_drive_file_id)
    THEN <<Ext("GoogleDriveClient"), Ext("drive.files.get"),
           Attr("download_file"), Loc("RFPAcceleratorAgent")>>
    ELSE IF Truthy(request.rfp_content)
    THEN <<Loc("open"), Loc("RFPAcceleratorAgent")>>
    ELSE <<>>

\* the step loop of a new orchestrator, in which the f-th fallible call of
\* step s raises (none when s = 0 or f = 0)
RECURSIVE StepLoop(_, _, _, _, _, _)
StepLoop(ctx, steps, cfg, s, f, x) ==
    IF steps = <<>>
    THEN [invoked |-> <<>>, outcome |-> "success", error |-> NoError]
    ELSE LET result == StepExecute(Head(steps), ctx, cfg,
                                   IF Head(steps) = s THEN f ELSE 0, x)
         IN IF result.raised
            THEN [invoked |-> <<Head(steps)>>, outcome |-> "failed",
                  error |-> result.error]
            ELSE LET rest == StepLoop(Merge(result.ctx, result.updates),
                                      Tail(steps), cfg, s, f, x)
                 IN [rest EXCEPT !.invoked = <<Head(steps)>> \o @]

\* agent.execute_workflow as _execute_workflow calls it: the one file is the
\* one the handler has just written, so it exists; steps_to_run is omitted
_execute_workflow(request, cfg, s, f, x) ==
    LET rfp_files == <<"rfp.txt">>
        err == _validate_inputs(rfp_files, request.client_name,
                                request.rfp_title, Some(request.team_members))
    IN IF err # NoError
       THEN [invoked |-> <<>>, outcome |-> "rejected", error |-> err]
       ELSE StepLoop(SeedContext(rfp_files, request.client_name,
                                 request.rfp_title,
                                 Some(request.team_members)),
                     DefaultSteps, cfg, s, f, x)

\* the try block of run_workflow: the exception it ends with (NoError when
\* it returns), whether execute_workflow was called, the steps invoked
TryBlock(request, cfg, h, s, f, x) ==
    IF ~Truthy(request.rfp_drive_file_id) /\ ~Truthy(request.rfp_content)
    THEN [error |-> Exc("HTTPException",
                        "Either rfp_content or rfp_drive_file_id must be provided"),
          started |-> FALSE, invoked |-> <<>>]
    ELSE LET run == RunOps(SourceOps(request), EmptyMap, h) IN
         IF run.raised
         THEN [error |-> run.error, started |-> FALSE, invoked |-> <<>>]
         ELSE LET w == _execute_workflow(request, cfg, s, f, x)
              IN [error |-> w.error, started |-> TRUE, invoked |-> w.invoked]

\* str(e) in the except clause.  An HTTPException carries no args, and
\* whether it defines __str__ depends on the installed Starlette: the text is
\* empty or "<status_code>: <detail>"
Details(e) ==
    IF e.exc = "HTTPException" THEN {"", "400: " \o e.arg}
    ELSE IF e.exc = "AttributeError" /\ e.arg = "download_file"
    THEN {"'GoogleDriveClient' object has no attribute 'download_file'"}
    ELSE {str(e)}

\* return response, or except Exception as e: raise HTTPException(500, str(e))
Responses(t) ==
    IF t.error = NoError
    THEN {[status_code |-> 200, detail |-> "Workflow completed"]}
    ELSE {[status_code |-> 500, detail |-> d] : d \in Details(t.error)}

ServerFailures == 0..2

run_workflow ==
    /\ pc = "idle"
    /\ ncalls = 0
    /\ direct = None
    /\ http = None
    /\ \E request \in RFPRequest, h \in ServerFailures, s \in 0..4,
          f \in ServerFailures, x \in BOOLEAN :
          LET t == TryBlock(request, config, h, s, f, x) IN
          \E response \in Responses(t) :
             http' = Some([request |-> request, started |-> t.started,
                           invoked |-> t.invoked, response |-> response])
    /\ UNCHANGED <<state, config, pc, call, remaining, context, invoked, seen,
                   extCalls, saved, ncalls, direct>>

\* the response has been sent; the orchestrator of the request is dropped
Responded ==
    /\ http # None
    /\ http' = None
    /\ UNCHANGED <<state, config, pc, call, remaining, context, invoked, seen,
                   extCalls, saved, ncalls, direct>>

NextServer == run_workflow \/ Responded

SpecServer == Init /\ [][NextServer]_vars

(* ------------------------------ properties ----------------------------- *)
Last(s) == s[Len(s)]
FollowsSyntaxRule(e) == e # <<>> /\ MatchesEmailPattern(Strip(e))
BreaksSyntaxRule(e) == ~FollowsSyntaxRule(e)
Elems(s) == {s[i] : i \in 1..Len(s)}
Addressed(calls, name) == SelectSeq(calls, LAMBDA o : o.a = name)
AddressesOf(calls, name) ==
    [i \in 1..Len(Addressed(calls, name)) |-> Addressed(calls, name)[i].to]
Distributing == {"drive.permissions.create", "gmail.messages.send"}
SoftStatuses == {"pending_input", "skipped", "validation_failed"}
\* the external calls the steps make: constructors of clients and calls that
\* create, upload, generate, grant or send
CreatingCalls ==
    {"GoogleDriveClient", "GoogleDocsClient", "GoogleWorkspaceClient",
     "GeminiClient", "VertexSearchClient", "drive.create_project_folder",
     "drive.upload_file", "gemini.generate_follow_up_questions",
     "gemini.extract_project_timeline", "gemini.create_project_plan",
     "docs.create_document", "docs.create_questions_document",
     "docs.create_answers_document", "docs.create_project_plan_document",
     "drive.permissions.create", "gmail.messages.send"}
Count(s, n) == Cardinality({i \in 1..Len(s) : s[i] = n})
RequiredKeys(n, ctx, cfg) ==
    {StepOps(n, ctx, cfg)[i].a :
        i \in {j \in 1..Len(StepOps(n, ctx, cfg)) :
                  StepOps(n, ctx, cfg)[j].t = "key"}}
MissingKeys(n, ctx, cfg) == RequiredKeys(n, ctx, cfg) \ DOMAIN ctx
Percent(n) == [num |-> n, den |-> 1]
IsPrefix(p, s) == Len(p) <= Len(s) /\ SubSeq(s, 1, Len(p)) = p
Blank(s) == \A i \in 1..Len(s) : s[i] = " "
ExternalFailure == Exc("Exception", "call failed")
InLoopCall == pc \in {"loop", "done"} /\ call.outcome \in {"none", "success", "failed"}
Finished == pc = "done" /\ call.outcome \in {"success", "failed"}
GivenSteps == IF call.steps_to_run = None THEN <<1, 2, 3, 4, 5, 6, 7>>
              ELSE ValueOf(call.steps_to_run)
TeamOf(c) == IF c.team_members = None THEN <<>> ELSE ValueOf(c.team_members)
Malformed(team) == \E i \in 1..Len(team) : ~validate_email(team[i])
InputsInvalid(rfp_files, client_name, rfp_title, team) ==
    \/ rfp_files = <<>>
    \/ \E i \in 1..Len(rfp_files) : rfp_files[i] \notin ExistingFiles
    \/ Blank(client_name)
    \/ Blank(rfp_title)
    \/ Malformed(team)
Calls(name) == SelectSeq(extCalls, LAMBDA o : o.a = name)
Recipients(name) == {Calls(name)[i].to : i \in 1..Len(Calls(name))}
ResultOf(n) == IF n \in DOMAIN state.results THEN state.results[n] ELSE "absent"

\* C1: with valid inputs and steps_to_run omitted, a call whose external calls
\* all succeed invokes steps 1, 2, 3, 4, 5, 6, 7 in this order, once each
C1_DefaultRunsAllSeven ==
    (Finished /\ call.op = "execute" /\ call.steps_to_run = None
       /\ call.error # ExternalFailure)
    => invoked = <<1, 2, 3, 4, 5, 6, 7>>

\* C2: when a step raises inside the loop the call ends there: status is
\* "failed", exactly the error's message is appended to errors, the error
\* reaches the caller, and no further step is invoked in the call
C2_FirstFailureStops ==
    [][/\ (pc = "loop" /\ pc' = "done" /\ call'.outcome # "success")
            => /\ call'.outcome = "failed"
               /\ call'.error # NoError
               /\ state'.status = "failed"
               /\ state'.errors = Append(state.errors, str(call'.error))
               /\ IsPrefix(invoked, invoked')
               /\ Len(invoked') <= Len(invoked) + 1
       /\ (pc = "done" /\ call.outcome = "failed")
            => /\ pc' = "idle"
               /\ state' = state]_vars

C2_Witness ==
    /\ pc = "done"
    /\ call.outcome = "failed"
    /\ invoked = <<1, 2, 3, 4>>
    /\ remaining = <<5, 6, 7>>
    /\ state.errors =
         <<"'GeminiClient' object has no attribute 'draft_rfp_answers'">>

\* C3 as stated: whatever the order of steps_to_run, the steps are invoked in
\* ascending numeric order
C3_AscendingOrder ==
    InLoopCall
    => IsPrefix(invoked, SortSeq(GivenSteps, LAMBDA a, b : a < b))

\* C3 amended: the steps are invoked in the order of steps_to_run as the
\* caller listed it; nothing is sorted
C3_CallerOrder ==
    /\ (pc = "loop" => invoked \o remaining = GivenSteps)
    /\ (Finished => IsPrefix(invoked, GivenSteps))
    /\ (Finished /\ call.outcome = "success" => invoked = GivenSteps)

C3_Witness ==
    /\ Finished
    /\ call.steps_to_run = Some(<<2, 1>>)
    /\ invoked = <<2, 1>>

\* C4: every key and value of the context given to resume_workflow is in the
\* context that each step of the resumed call receives
C4_ResumeContextVerbatim ==
    (call.op = "resume" /\ call.given # None)
    => \A i \in 1..Len(seen) :
         \A k \in DOMAIN ValueOf(call.given) :
            /\ k \in DOMAIN seen[i]
            /\ seen[i][k] = ValueOf(call.given)[k]

\* C5: resume_workflow(context, from_step=k) on the context that
\* execute_workflow(steps_to_run=[1..k-1]) returned does, for steps k..7, what
\* the loop of a single run does from that context: the same steps, the same
\* outcome, the same error
C5_ResumeEquivalent ==
    (/\ pc = "done"
     /\ call.op = "resume"
     /\ call.from_step \in 1..7
     /\ call.error # ExternalFailure
     /\ saved # None
     /\ call.given = Some(ValueOf(saved).context)
     /\ ValueOf(saved).steps = Range(1, call.from_step))
    => LET ref == ContinueLoop(ValueOf(saved).context,
                               Range(call.from_step, 8), config)
       IN /\ invoked = ref.invoked
          /\ call.outcome = ref.outcome
          /\ call.error = ref.error

\* C6 as stated: a resume call is never rejected by input validation
C6_ResumeNeverRejected == call.op = "resume" => call.outcome # "rejected"

\* C6 amended: a resume call whose context has the three required keys is
\* rejected, before any step and any external call, exactly when a source
\* file is missing, the client or title is blank or an address is malformed
C6_ResumeValidates ==
    (pc \in {"loop", "done"} /\ call.op = "resume"
       /\ call.outcome # "key_error")
    => LET ctx == ValueOf(call.given) IN
       /\ call.outcome = "rejected"
            <=> InputsInvalid(ctx["rfp_files"], ctx["client_name"],
                              ctx["rfp_title"], GetList(ctx, "team_members"))
       /\ call.outcome = "rejected"
            => invoked = <<>> /\ extCalls = <<>> /\ pc = "done"

C6_Witness ==
    /\ pc = "done"
    /\ call.op = "resume"
    /\ call.outcome = "rejected"
    /\ call.from_step = 6
    /\ ValueOf(call.given)["rfp_files"] = <<"missing.txt">>

\* C7: an execute_workflow call with an empty source list, a missing source
\* file, a blank client or title, or one malformed address is rejected with
\* no step invoked and no external call made; no other call is rejected
C7_ValidationBeforeSteps ==
    (pc \in {"loop", "done"} /\ call.op = "execute")
    => /\ call.outcome = "rejected"
            <=> InputsInvalid(call.rfp_files, call.client_name,
                              call.rfp_title, TeamOf(call))
       /\ call.outcome = "rejected"
            => invoked = <<>> /\ extCalls = <<>> /\ pc = "done"

C7_Witness ==
    /\ pc = "done"
    /\ call.op = "execute"
    /\ call.outcome = "rejected"
    /\ call.team_members = Some(<<GoodEmail, ShortTld>>)
    /\ invoked = <<>>

\* C8: a step the orchestrator executes never removes a key of the context
C8_KeysMonotone ==
    [][pc = "loop" /\ pc' \in {"loop", "done"}
         => DOMAIN context \subseteq DOMAIN context']_vars

C8_Witness ==
    /\ pc = "loop"
    /\ invoked = <<1, 2, 3>>
    /\ SeedKeys \subseteq DOMAIN context
    /\ {"folder_id", "knowledge_base_id", "questions"} \subseteq DOMAIN context

\* C9: a run of steps 1..7 with no collaborators whose external calls all
\* succeed ends with step 6 "pending_input" and step 7 "skipped", and makes no
\* access-grant and no messaging call
C9_EmptyTeamPendingThenSkipped ==
    (Finished /\ call.op = "execute" /\ call.steps_to_run = None
       /\ TeamOf(call) = <<>> /\ call.error # ExternalFailure)
    => /\ ResultOf(6) = "pending_input"
       /\ ResultOf(7) = "skipped"
       /\ Calls("drive.permissions.create") = <<>>
       /\ Calls("gmail.messages.send") = <<>>

\* C10: a run of steps 1..7 with valid collaborators whose external calls all
\* succeed grants access and sends the notification to every collaborator,
\* step 7 returns "success", and the run ends "completed" with
\* distribution_complete in the context
C10_DistributionCompletes ==
    (Finished /\ call.op = "execute" /\ call.steps_to_run = None
       /\ TeamOf(call) # <<>> /\ call.error # ExternalFailure)
    => /\ call.outcome = "success"
       /\ state.status = "completed"
       /\ ResultOf(7) = "success"
       /\ Has(context, "distribution_complete")
       /\ \A i \in 1..Len(TeamOf(call)) :
            /\ TeamOf(call)[i] \in Recipients("drive.permissions.create")
            /\ TeamOf(call)[i] \in Recipients("gmail.messages.send")

\* C11: whenever get_status is called, progress_percent is current_step / 7
\* * 100: 0 while current_step is 0, as it is on a new orchestrator until the
\* loop assigns its first step, and 100 when current_step is 7, as it is once
\* step 7 has returned
C11_ProgressPercent ==
    LET p == get_status.progress_percent IN
    /\ get_status.current_step = state.current_step
    /\ p.den > 0
    /\ p.num * 7 = state.current_step * 100 * p.den
    /\ state.current_step = 0 => p = Percent(0)
    /\ state.current_step = 7 => p = Percent(100)
    /\ (ncalls <= 1 /\ pc \in {"idle", "loop"} /\ invoked = <<>>
          /\ state.results = EmptyMap /\ state.errors = <<>>)
         => p = Percent(0)
    /\ (pc \in {"loop", "done"} /\ invoked # <<>> /\ Last(invoked) = 7
          /\ call.outcome # "failed")
         => p = Percent(100)

C11_Witness ==
    /\ pc = "done"
    /\ call.outcome = "success"
    /\ invoked # <<>>
    /\ Last(invoked) = 7
    /\ ResultOf(7) = "skipped"
    /\ get_status.current_step = 7
    /\ get_status.progress_percent = Percent(100)

\* C12: execute_workflow with one existing source, a client and a title, no
\* collaborators and steps_to_run = [1, 2, 3], whose external calls succeed,
\* returns "success" with folder_id, folder_url, questions, questions_doc_id
\* and questions_doc_url in the context; steps 6 and 7 are not invoked, and no
\* access is granted and no message sent
C12_FirstThreeSteps ==
    (/\ Finished
     /\ call.op = "execute"
     /\ call.steps_to_run = Some(<<1, 2, 3>>)
     /\ Len(call.rfp_files) = 1
     /\ TeamOf(call) = <<>>
     /\ call.error # ExternalFailure)
    => /\ call.outcome = "success"
       /\ state.status = "completed"
       /\ invoked = <<1, 2, 3>>
       /\ {"folder_id", "folder_url", "questions", "questions_doc_id",
           "questions_doc_url"} \subseteq DOMAIN context
       /\ context["questions"] = "questions"
       /\ {6, 7} \cap DOMAIN state.results = {}
       /\ Calls("drive.permissions.create") = <<>>
       /\ Calls("gmail.messages.send") = <<>>

C12_Witness ==
    /\ Finished
    /\ call.op = "execute"
    /\ call.steps_to_run = Some(<<1, 2, 3>>)
    /\ call.team_members = Some(<<>>)
    /\ call.outcome = "success"
    /\ Has(context, "questions_doc_url")
    /\ Calls("docs.create_questions_document") # <<>>

\* C13: a call that entered the step loop returns "success", and Run State
\* status is "completed", exactly when every selected step was invoked and
\* none raised; results then has an entry for every selected step
C13_SuccessIffNoRaise ==
    /\ (pc = "loop" /\ ncalls = 1) => state.status # "completed"
    /\ Finished
         => /\ call.outcome = "success" <=> state.status = "completed"
            /\ call.outcome = "success"
                 <=> (invoked = GivenSteps /\ call.error = NoError)
            /\ ncalls = 1 => (call.outcome = "success" <=> state.errors = <<>>)
            /\ call.outcome = "success"
                 => \A i \in 1..Len(GivenSteps) :
                       GivenSteps[i] \in DOMAIN state.results

C13_Witness ==
    /\ Finished
    /\ call.outcome = "success"
    /\ state.status = "completed"
    /\ GivenSteps = <<1, 2, 3>>
    /\ DOMAIN state.results = {1, 2, 3}

\* C14: after a call has failed inside the step loop, get_status shows the
\* number of the step that raised as current_step, "failed" as status, and
\* the message of the error as the last entry of errors
C14_FailureVisible ==
    (pc = "done" /\ call.outcome = "failed")
    => LET n == GivenSteps[Len(GivenSteps) - Len(remaining)]
           e == call.error
           shown == get_status.errors
       IN /\ get_status.current_step = n
          /\ n \in StepNumbers => (invoked # <<>> /\ Last(invoked) = n)
          /\ n \notin StepNumbers => e = KeyError(ToString(n))
          /\ get_status.status = "failed"
          /\ shown # <<>>
          /\ e.exc = "KeyError" /\ e.arg \notin IntKeys
               => Last(shown) = "'" \o e.arg \o "'"
          /\ e.exc = "KeyError" /\ e.arg \in IntKeys => Last(shown) = e.arg
          /\ e.exc = "Exception" => Last(shown) = e.arg
          /\ e.exc = "AttributeError"
               => Last(shown) = "'GeminiClient' object has no attribute '"
                                  \o e.arg \o "'"
          /\ e.exc \in {"KeyError", "Exception", "AttributeError"}

C14_Witness ==
    /\ pc = "done"
    /\ call.op = "resume"
    /\ call.outcome = "failed"
    /\ invoked = <<2, 3>>
    /\ get_status.current_step = 3
    /\ get_status.status = "failed"
    /\ get_status.errors = <<"'subfolders'">>

\* C15: a step invoked with a context that lacks a key it reads raises, unless
\* an external call fails first, a KeyError that names a missing key, and no
\* step is invoked after it in the call
C15_MissingKeyNamed ==
    Finished
    => \A i \in 1..Len(invoked) :
          MissingKeys(invoked[i], seen[i], config) # {}
          => /\ i = Len(invoked)
             /\ call.outcome = "failed"
             /\ call.error # ExternalFailure
                  => /\ call.error.exc = "KeyError"
                     /\ call.error.arg
                          \in MissingKeys(invoked[i], seen[i], config)
                     /\ Last(state.errors) = "'" \o call.error.arg \o "'"

\* C16: over any sequence of execute_workflow and resume_workflow calls on one
\* instance, every step of the orchestrator keeps the errors it had as a
\* prefix of errors and keeps every entry of results
C16_RunStateNeverReset ==
    [][/\ IsPrefix(state.errors, state'.errors)
       /\ DOMAIN state.results \subseteq DOMAIN state'.results]_vars

C16_Witness ==
    /\ ncalls = 2
    /\ pc = "done"
    /\ call.outcome = "failed"
    /\ invoked = <<2, 3>>
    /\ Len(state.errors) = 2
    /\ DOMAIN state.results = {1, 2, 3}

\* C17 as stated: the step that raised has been invoked exactly once in the
\* call
C17_FailingStepOnce ==
    (pc = "done" /\ call.outcome = "failed" /\ invoked # <<>>
       /\ get_status.current_step = Last(invoked))
    => Count(invoked, Last(invoked)) = 1

\* C17 amended: once a step has raised, no step is invoked again in the call,
\* and the step that raised has been invoked as many times as the caller
\* listed it up to there, never more
C17_NoRetry ==
    [][/\ call.outcome = "failed" => (pc' # "loop" /\ invoked' \in {invoked, <<>>})
       /\ (call.outcome # "failed" /\ call'.outcome = "failed"
             /\ invoked' # invoked)
            => /\ invoked' = Append(invoked, Head(remaining))
               /\ IsPrefix(invoked', GivenSteps)
               /\ \A n \in StepNumbers :
                     Count(invoked', n)
                       = Count(SubSeq(GivenSteps, 1, Len(invoked')), n)]_vars

C17_Witness ==
    /\ pc = "done"
    /\ call.outcome = "failed"
    /\ GivenSteps = <<1, 2, 3, 4, 5, 6, 7>>
    /\ invoked = <<1, 2, 3, 4>>
    /\ Count(invoked, 4) = 1

\* C18: the calls made to external systems during a call are only ever added
\* to, every one of them creates, uploads, generates, grants or sends, and the
\* step that raises adds nothing after the call that failed: when the error
\* reaches the caller nothing that the completed steps created has been
\* deleted or undone
C18_NoCompensation ==
    [][/\ (pc = "loop" /\ pc' \in {"loop", "done"})
            => IsPrefix(extCalls, extCalls')
       /\ \A i \in 1..Len(extCalls') : extCalls'[i].a \in CreatingCalls
       /\ (pc = "loop" /\ call'.outcome = "failed"
             /\ Head(remaining) \in StepNumbers)
            => \E f \in 0..NumFallible(Head(remaining), context, config) :
                 extCalls' = extCalls
                    \o StepExecute(Head(remaining), context, config, f,
                                   FALSE).calls]_vars

C18_Witness ==
    /\ pc = "done"
    /\ call.outcome = "failed"
    /\ invoked = <<1, 2, 3, 4>>
    /\ Calls("drive.create_project_folder") # <<>>
    /\ Calls("docs.create_questions_document") # <<>>
    /\ Last(extCalls).a = "GoogleDocsClient"

\* C19: a step that returns "pending_input", "skipped" or "validation_failed"
\* leaves the loop running: its updates are merged, its result recorded,
\* nothing is appended to errors and the next selected step is next; a call
\* of steps 6 and 7 without collaborators so ends "completed" with step 6
\* "pending_input", step 7 "skipped" and no error
C19_SoftStatusesContinue ==
    /\ [](Finished /\ GivenSteps = <<6, 7>> /\ TeamOf(call) = <<>>
            => /\ call.outcome = "success"
               /\ state.status = "completed"
               /\ ResultOf(6) = "pending_input"
               /\ ResultOf(7) = "skipped"
               /\ state.errors = <<>>
               /\ context["awaiting_team_members"] = TRUE)
    /\ [][(/\ pc = "loop"
            /\ remaining # <<>>
            /\ invoked' = Append(invoked, Head(remaining))
            /\ call'.outcome # "failed"
            /\ state'.results[Head(remaining)] \in SoftStatuses)
           => /\ pc' = "loop"
              /\ remaining' = Tail(remaining)
              /\ state'.errors = state.errors
              /\ state'.status = state.status
              /\ DOMAIN state'.results
                   = DOMAIN state.results \cup {Head(remaining)}
              /\ context'
                   = Update(context,
                            StepExecute(Head(remaining), context, config, 0,
                                        FALSE).updates)]_vars

C19_Witness ==
    /\ Finished
    /\ GivenSteps = <<6, 7>>
    /\ invoked = <<6, 7>>
    /\ call.outcome = "success"
    /\ ResultOf(6) = "pending_input"
    /\ ResultOf(7) = "skipped"
    /\ state.errors = <<>>

\* C20: the invocation of a step that raises leaves the results mapping and
\* the context, keys and values, as they were before it
C20_FailedStepMergesNothing ==
    [][(pc = "loop" /\ call.outcome # "failed" /\ call'.outcome = "failed")
         => /\ state'.results = state.results
            /\ DOMAIN context' = DOMAIN context
            /\ context' = context]_vars

C20_Witness ==
    /\ pc = "done"
    /\ call.outcome = "failed"
    /\ invoked = <<1>>
    /\ Calls("drive.upload_file") # <<>>
    /\ DOMAIN context = SeedKeys
    /\ state.results = EmptyMap

\* C21: step 7 executed on any context grants access and sends the
\* notification only to addresses of validated_team_members; when it returns
\* "success" each of them has been granted access, and notified if e-mail is
\* enabled; when the list is absent or empty it returns "skipped" with empty
\* context updates and makes no call at all
C21_OnlyValidatedAddresses ==
    (direct # None /\ ValueOf(direct).step = 7)
    => LET d == ValueOf(direct)
           validated == GetList(d.given, "validated_team_members")
           r == d.result
       IN /\ \A i \in 1..Len(r.calls) :
                r.calls[i].a \in Distributing
                => r.calls[i].to \in Elems(validated)
          /\ (~r.raised /\ validated # <<>>)
               => /\ r.status = "success"
                  /\ AddressesOf(r.calls, "drive.permissions.create")
                       = validated
                  /\ AddressesOf(r.calls, "gmail.messages.send")
                       = IF d.config.email_enabled THEN validated ELSE <<>>
          /\ validated = <<>>
               => /\ ~r.raised
                  /\ r.status = "skipped"
                  /\ r.updates = EmptyMap
                  /\ r.calls = <<>>

C21_Witness ==
    /\ direct # None
    /\ ValueOf(direct).step = 7
    /\ ValueOf(direct).given["team_members"] = <<GoodEmail, ShortTld>>
    /\ GetList(ValueOf(direct).given, "validated_team_members") = <<GoodEmail>>
    /\ ValueOf(direct).result.status = "success"
    /\ AddressesOf(ValueOf(direct).result.calls, "gmail.messages.send")
         = <<GoodEmail>>

\* C22: step 6 executed on a non-empty team_members list puts the addresses
\* that follow the syntax rule, in input order, in validated_team_members and
\* the others, in input order, in invalid_team_members (which is not set when
\* there are none); it returns "validation_failed" exactly when some address
\* breaks the rule and "success" otherwise
C22_CollaborationPartition ==
    (/\ direct # None
     /\ ValueOf(direct).step = 6
     /\ GetList(ValueOf(direct).given, "team_members") # <<>>)
    => LET team == ValueOf(direct).given["team_members"]
           r == ValueOf(direct).result
       IN /\ ~r.raised
          /\ r.calls = <<>>
          /\ r.updates["validated_team_members"]
               = SelectSeq(team, FollowsSyntaxRule)
          /\ GetList(r.updates, "invalid_team_members")
               = SelectSeq(team, BreaksSyntaxRule)
          /\ r.status = "validation_failed"
               <=> \E i \in 1..Len(team) : BreaksSyntaxRule(team[i])
          /\ r.status \in {"validation_failed", "success"}
          /\ r.status = "success"
               <=> ~Has(r.updates, "invalid_team_members")

C22_Witness ==
    /\ direct # None
    /\ ValueOf(direct).step = 6
    /\ GetList(ValueOf(direct).given, "team_members") = <<ShortTld, GoodEmail>>
    /\ ValueOf(direct).result.status = "validation_failed"
    /\ ValueOf(direct).result.updates["validated_team_members"] = <<GoodEmail>>
    /\ ValueOf(direct).result.updates["invalid_team_members"] = <<ShortTld>>

\* C23: step 4 invoked with a context that has no grounding_source, in a call
\* whose external calls all succeed and whose context holds every key step 4
\* requires, returns "success" with the drafted answers and is not the step
\* the call fails in
C23_UngroundedAnswers ==
    Finished
    => \A i \in 1..Len(invoked) :
          (/\ invoked[i] = 4
           /\ ~Has(seen[i], "grounding_source")
           /\ MissingKeys(4, seen[i], config) = {}
           /\ call.error # ExternalFailure)
          => /\ ResultOf(4) = "success"
             /\ Has(context, "draft_answers")
             /\ ~(i = Len(invoked) /\ call.outcome = "failed")

\* C24: the context handed to the first step an execute_workflow call
\* invokes has exactly the keys rfp_files, client_name, rfp_title, date,
\* team_members and gcp_project, with the caller's files, client name and
\* title, today's date, the instance's project, and the caller's collaborator
\* list, which is the empty list when the caller omitted it
C24_SeedContextFirst ==
    (call.op = "execute" /\ invoked # <<>>)
    => /\ DOMAIN seen[1] = {"rfp_files", "client_name", "rfp_title", "date",
                            "team_members", "gcp_project"}
       /\ seen[1]["rfp_files"] = call.rfp_files
       /\ seen[1]["client_name"] = call.client_name
       /\ seen[1]["rfp_title"] = call.rfp_title
       /\ seen[1]["date"] = Today
       /\ seen[1]["gcp_project"] = GcpProject
       /\ call.team_members = None => seen[1]["team_members"] = <<>>
       /\ call.team_members # None
            => seen[1]["team_members"] = ValueOf(call.team_members)

C24_Witness ==
    /\ call.op = "execute"
    /\ call.team_members = None
    /\ call.steps_to_run = Some(<<3, 1, 2>>)
    /\ invoked = <<3>>
    /\ DOMAIN seen[1] = SeedKeys
    /\ seen[1]["team_members"] = <<>>
    /\ seen[1]["client_name"] = call.client_name

\* C25: a call that _validate_inputs rejects leaves status, current_step,
\* errors and results of Run State as they were before the call, whatever
\* earlier calls on the instance left there
C25_RejectedLeavesRunState ==
    [][(ncalls' = ncalls + 1 /\ call'.outcome = "rejected")
       => /\ state'.status = state.status
          /\ state'.current_step = state.current_step
          /\ state'.errors = state.errors
          /\ state'.results = state.results]_vars

C25_Witness ==
    /\ ncalls = 2
    /\ pc = "done"
    /\ call.outcome = "rejected"
    /\ call.error.exc = "ValueError"
    /\ state.status = "failed"
    /\ state.current_step = 4
    /\ Len(state.errors) = 1
    /\ DOMAIN state.results # {}

\* C26: in every reachable state, whatever steps_to_run or from_step the
\* caller passed, current_step is one of 0..7 and progress_percent is at
\* least 0 and at most 100
C26_StepInRange ==
    /\ state.current_step \in 0..7
    /\ get_status.current_step \in 0..7
    /\ get_status.progress_percent.num >= 0
    /\ get_status.progress_percent.num <= 100 * get_status.progress_percent.den

\* C27: on one instance errors starts empty and grows by exactly one entry
\* at each call that fails inside the step loop and at nothing else (a
\* rejected call, a step that returns, a call that completes), so its length
\* is the number of calls that failed inside the loop; and status "failed"
\* implies that errors is not empty
C27_OneErrorPerFailedCall ==
    /\ [](/\ state.status = "failed" => state.errors # <<>>
          /\ Len(state.errors) <= ncalls
          /\ ncalls = 0 => state.errors = <<>>)
    /\ [][IF call'.outcome = "failed" /\ call.outcome # "failed"
          THEN /\ ncalls' = ncalls
               /\ pc = "loop"
               /\ Len(state'.errors) = Len(state.errors) + 1
          ELSE Len(state'.errors) = Len(state.errors)]_vars

C27_Witness ==
    /\ ncalls = 2
    /\ pc = "done"
    /\ call.outcome = "failed"
    /\ Len(state.errors) = 2
    /\ state.status = "failed"

\* C28: in an execute_workflow or resume_workflow call, step 6 never returns
\* "validation_failed" and never sets invalid_team_members; when the call's
\* collaborator list is not empty, step 6 returns "success" and
\* validated_team_members is the supplied list
C28_WorkflowTeamAlreadyValid ==
    (InLoopCall /\ 6 \in Elems(invoked) /\ ResultOf(6) # "absent")
    => /\ ResultOf(6) # "validation_failed"
       /\ ~Has(context, "invalid_team_members")
       /\ TeamOf(call) # <<>>
            => /\ ResultOf(6) = "success"
               /\ context["validated_team_members"] = TeamOf(call)
       /\ TeamOf(call) = <<>> => ResultOf(6) = "pending_input"

C28_Witness ==
    /\ InLoopCall
    /\ call.op = "resume"
    /\ 6 \in Elems(invoked)
    /\ ResultOf(6) = "success"
    /\ TeamOf(call) = <<GoodEmail>>
    /\ context["validated_team_members"] = TeamOf(call)

\* C29: a call with valid inputs and nothing to run, execute_workflow with
\* steps_to_run = [] or resume_workflow with from_step = 8, is not rejected,
\* invokes no step and makes no external call, returns "success" and sets
\* status to "completed", and no step of it changes current_step, errors or
\* results; the loop iterates the caller's list whenever one was passed, and
\* 1..7 only when steps_to_run was omitted
C29_NothingToRun ==
    /\ []((/\ pc = "done"
           /\ call.op = "resume"
           /\ call.from_step = 8
           /\ ~InputsInvalid(call.rfp_files, call.client_name,
                             call.rfp_title, TeamOf(call)))
          => call.outcome = "success")
    /\ []((pc = "done" /\ call.steps_to_run = Some(<<>>))
          => /\ call.outcome = "success"
             /\ invoked = <<>>
             /\ extCalls = <<>>
             /\ state.status = "completed")
    /\ [][/\ call'.steps_to_run = Some(<<>>)
             => /\ state'.current_step = state.current_step
                /\ state'.errors = state.errors
                /\ state'.results = state.results
          /\ (ncalls' = ncalls + 1 /\ pc' = "loop")
             => remaining' = IF call'.steps_to_run = None
                             THEN <<1, 2, 3, 4, 5, 6, 7>>
                             ELSE ValueOf(call'.steps_to_run)]_vars

C29_Witness ==
    /\ ncalls = 2
    /\ pc = "done"
    /\ call.op = "execute"
    /\ call.steps_to_run = Some(<<>>)
    /\ call.outcome = "success"
    /\ invoked = <<>>
    /\ state.status = "completed"
    /\ state.current_step = 4
    /\ Len(state.errors) = 1

\* C30: a POST /run-workflow request with neither rfp_content nor
\* rfp_drive_file_id is answered with status 400 and the detail "Either
\* rfp_content or rfp_drive_file_id must be provided", and execute_workflow
\* is not called for it
C30_NeitherSourceIs400 ==
    (/\ http # None
     /\ ~Truthy(ValueOf(http).request.rfp_content)
     /\ ~Truthy(ValueOf(http).request.rfp_drive_file_id))
    => /\ ValueOf(http).response.status_code = 400
       /\ ValueOf(http).response.detail
            = "Either rfp_content or rfp_drive_file_id must be provided"
       /\ ~ValueOf(http).started
       /\ ValueOf(http).invoked = <<>>

====
